---- MODULE Spec2Model ----
(***************************************************************************)
(* A model of the 2A03 CPU core of nesemu-go (hardware/cpu_2A03.go).       *)
(*                                                                         *)
(* The CPU aggregate is the record cpu, with the fields of the Go struct.  *)
(* The 64 KiB memory slice, which make() fills with zeros, is kept as a    *)
(* function from the addresses that hold a non-zero byte to that byte; an  *)
(* address outside its domain reads as 0.  Every method of the CPU is an   *)
(* operator from a CPU record to the CPU record it leaves (and, for the    *)
(* methods that return something, an operator giving the returned value).  *)
(* uint8 and uint16 arithmetic wraps: Byte(_) and Word(_).                 *)
(***************************************************************************)
EXTENDS Integers, Sequences, FiniteSets, TLC

VARIABLES
    cpu,      \* the CPU struct: registers and memory
    stdout,   \* what Interpret has printed: a sequence of <<opcode, program_counter>>
    running,  \* TRUE once control is inside the for-loop of Interpret
    panic,    \* TRUE once a slice index out of range has ended the process
    hist      \* log of the operations applied so far, each with the CPU it started from

vars == <<cpu, stdout, running, panic, hist>>

----------------------------------------------------------------------------
(* Fixed-width integers and bit operations                                 *)

Byte(n) == n % 256

Word(n) == n % 65536

RECURSIVE Pow2(_)
Pow2(n) == IF n = 0 THEN 1 ELSE 2 * Pow2(n - 1)

\* bit pos of an unsigned value
BitOf(val, pos) == (val \div Pow2(pos)) % 2

\* the Go operators &, | and ^ on unsigned operands
RECURSIVE BitAnd(_, _)
BitAnd(a, b) ==
    IF a = 0 \/ b = 0 THEN 0
    ELSE (a % 2) * (b % 2) + 2 * BitAnd(a \div 2, b \div 2)

RECURSIVE BitOr(_, _)
BitOr(a, b) ==
    IF a = 0 THEN b
    ELSE IF b = 0 THEN a
    ELSE (IF (a % 2) + (b % 2) > 0 THEN 1 ELSE 0) + 2 * BitOr(a \div 2, b \div 2)

RECURSIVE BitXor(_, _)
BitXor(a, b) ==
    IF a = 0 THEN b
    ELSE IF b = 0 THEN a
    ELSE (((a % 2) + (b % 2)) % 2) + 2 * BitXor(a \div 2, b \div 2)

\* the Go operator ^x (complement) on a uint8
BitNot8(a) == 255 - a

\* x << n and x >> n on a uint8; x << n on a uint16
Shl8(a, n) == Byte(a * Pow2(n))
Shr8(a, n) == a \div Pow2(n)
Shl16(a, n) == Word(a * Pow2(n))

----------------------------------------------------------------------------
(* Constants of the package                                                *)

STACK_START == \H0100
STACK_RESET == \HFD

NMI == \HFFFA
RES == \HFFFC
IRQ == \HFFFE

\* the Flags enumeration: the bit position of each flag in status
C == 0
Z == 1
I == 2
D == 3
B == 4
X == 5
V == 6
N == 7

\* the AddressingMode enumeration
AddressingMode ==
    { "modeImmediate", "modeZeroPage", "modeAbsolute", "modeZeroPageX",
      "modeZeroPageY", "modeAbsoluteX", "modeAbsoluteY", "modeIndirectX",
      "modeIndirectY", "modeRelative", "modeAccumulator", "modeIndirect",
      "modeNoneAddressing" }

\* general helpful functions
extractBit(val, pos) == Shr8(BitAnd(val, Shl8(1, pos)), pos)

----------------------------------------------------------------------------
(* Memory                                                                  *)

\* memory[address] of the zero-initialised slice
MemAt(memory, address) == IF address \in DOMAIN memory THEN memory[address] ELSE 0

\* memory with memory[address] = data
MemPut(memory, address, data) ==
    IF data = 0
    THEN [a \in (DOMAIN memory) \ {address} |-> memory[a]]
    ELSE [a \in (DOMAIN memory) \cup {address} |->
              IF a = address THEN data ELSE memory[a]]

mem_read(c, address) == MemAt(c.memory, address)

mem_write(c, address, data) == [c EXCEPT !.memory = MemPut(c.memory, address, data)]

mem_read_16(c, address) ==
    LET lsb == mem_read(c, address)
        msb == mem_read(c, Word(address + 1))
    IN  BitOr(Shl16(msb, 8), lsb)

\* a slip the little-endian round trip must catch: the two bytes stored swapped
mem_write_16_swapped(c, address, data) ==
    LET lsb == BitAnd(data, \HFF)
        msb == data \div 256
    IN  mem_write(mem_write(c, address, msb), Word(address + 1), lsb)

mem_write_16(c, address, data) ==
    LET lsb == Byte(BitAnd(data, \HFF))
        msb == Byte(data \div 256)
    IN  mem_write(mem_write(c, address, lsb), Word(address + 1), msb)

----------------------------------------------------------------------------
(* Stack                                                                   *)

push(c, data) ==
    [c EXCEPT !.memory = MemPut(c.memory, STACK_START + c.stack_pointer, data),
              !.stack_pointer = Byte(c.stack_pointer - 1 + 256)]

\* pop: the value returned, and the CPU left
pop_value(c) == MemAt(c.memory, STACK_START + c.stack_pointer)

pop(c) == [c EXCEPT !.stack_pointer = Byte(c.stack_pointer + 1)]

push_16(c, data) ==
    LET lsb == Byte(BitAnd(data, \HFF))
        msb == Byte(data \div 256)
        c1  == [c EXCEPT !.memory = MemPut(c.memory, STACK_START + c.stack_pointer, lsb),
                         !.stack_pointer = Byte(c.stack_pointer - 1 + 256)]
    IN  [c1 EXCEPT !.memory = MemPut(c1.memory, STACK_START + c1.stack_pointer, msb),
                   !.stack_pointer = Byte(c1.stack_pointer - 1 + 256)]

\* pop_16: the value returned, and the CPU left
pop_16_value(c) ==
    LET msb == MemAt(c.memory, c.stack_pointer)
        lsb == MemAt(c.memory, Byte(c.stack_pointer + 1))
    IN  BitOr(Shl16(msb, 8), lsb)

pop_16(c) == [c EXCEPT !.stack_pointer = Byte(c.stack_pointer + 2)]

\* the memory cells each stack function indexes, from the CPU it is called on
push_cells(c) == { STACK_START + c.stack_pointer }

pop_cells(c) == { STACK_START + c.stack_pointer }

push_16_cells(c) ==
    { STACK_START + c.stack_pointer, STACK_START + Byte(c.stack_pointer - 1 + 256) }

pop_16_cells(c) == { c.stack_pointer, Byte(c.stack_pointer + 1) }

----------------------------------------------------------------------------
(* Addressing modes                                                        *)

\* the resolver with the zero-page sums of ZeroPageX and IndirectX kept in 16 bits
address_operand_unwrapped(c, mode) ==
    CASE mode = "modeImmediate" -> c.program_counter
      [] mode = "modeZeroPage" -> mem_read(c, c.program_counter)
      [] mode = "modeAbsolute" -> mem_read_16(c, c.program_counter)
      [] mode = "modeZeroPageX" ->
            LET base_addr == mem_read(c, c.program_counter)
            IN  base_addr + c.index_x
      [] mode = "modeZeroPageY" ->
            LET base_addr == mem_read(c, c.program_counter)
            IN  Byte(base_addr + c.index_y)
      [] mode = "modeAbsoluteX" ->
            LET base_addr == mem_read_16(c, c.program_counter)
            IN  Word(base_addr + c.index_x)
      [] mode = "modeAbsoluteY" ->
            LET base_addr == mem_read_16(c, c.program_counter)
            IN  Word(base_addr + c.index_y)
      [] mode = "modeIndirectX" ->
            LET base   == mem_read(c, c.program_counter)
                offset == Byte(base + c.index_x)
                lsb    == mem_read(c, offset)
                msb    == mem_read(c, offset + 1)
            IN  BitOr(Shl16(msb, 8), lsb)
      [] mode = "modeIndirectY" ->
            LET base   == mem_read(c, c.program_counter)
                offset == Byte(base + c.index_y)
                lsb    == mem_read(c, offset)
                msb    == mem_read(c, Byte(offset + 1))
            IN  BitOr(Shl16(msb, 8), lsb)
      [] mode = "modeRelative" -> c.program_counter
      [] mode = "modeIndirect" ->
            LET lsb            == mem_read(c, c.program_counter)
                msb            == mem_read(c, Word(c.program_counter + 1))
                indirectVector == BitOr(Shl16(msb, 8), lsb)
                address_lsb    == mem_read(c, indirectVector)
                address_msb    ==
                    IF BitAnd(indirectVector, \H00FF) = \H00FF
                    THEN BitAnd(address_lsb, \HFF00)
                    ELSE mem_read(c, Word(indirectVector + 1))
            IN  BitOr(Shl16(address_msb, 8), address_lsb)
      [] OTHER -> 0

address_operand(c, mode) ==
    CASE mode = "modeImmediate" -> c.program_counter
      [] mode = "modeZeroPage" -> mem_read(c, c.program_counter)
      [] mode = "modeAbsolute" -> mem_read_16(c, c.program_counter)
      [] mode = "modeZeroPageX" ->
            LET base_addr == mem_read(c, c.program_counter)
            IN  Byte(base_addr + c.index_x)
      [] mode = "modeZeroPageY" ->
            LET base_addr == mem_read(c, c.program_counter)
            IN  Byte(base_addr + c.index_y)
      [] mode = "modeAbsoluteX" ->
            LET base_addr == mem_read_16(c, c.program_counter)
            IN  Word(base_addr + c.index_x)
      [] mode = "modeAbsoluteY" ->
            LET base_addr == mem_read_16(c, c.program_counter)
            IN  Word(base_addr + c.index_y)
      [] mode = "modeIndirectX" ->
            LET base   == mem_read(c, c.program_counter)
                offset == Byte(base + c.index_x)
                lsb    == mem_read(c, offset)
                msb    == mem_read(c, Byte(offset + 1))
            IN  BitOr(Shl16(msb, 8), lsb)
      [] mode = "modeIndirectY" ->
            LET base   == mem_read(c, c.program_counter)
                offset == Byte(base + c.index_y)
                lsb    == mem_read(c, offset)
                msb    == mem_read(c, Byte(offset + 1))
            IN  BitOr(Shl16(msb, 8), lsb)
      [] mode = "modeRelative" -> c.program_counter
      [] mode = "modeIndirect" ->
            LET lsb            == mem_read(c, c.program_counter)
                msb            == mem_read(c, Word(c.program_counter + 1))
                indirectVector == BitOr(Shl16(msb, 8), lsb)
                address_lsb    == mem_read(c, indirectVector)
                address_msb    ==
                    IF BitAnd(indirectVector, \H00FF) = \H00FF
                    THEN BitAnd(address_lsb, \HFF00)
                    ELSE mem_read(c, Word(indirectVector + 1))
            IN  BitOr(Shl16(address_msb, 8), address_lsb)
      [] OTHER -> 0

----------------------------------------------------------------------------
(* Flags                                                                   *)

setFlags(c, f) == [c EXCEPT !.status = BitOr(c.status, Shl8(1, f))]

\* resetFlags without the complement: every bit but the named one is cleared
resetFlags_without_complement(c, f) == [c EXCEPT !.status = BitAnd(c.status, Shl8(1, f))]

resetFlags(c, f) == [c EXCEPT !.status = BitAnd(c.status, BitNot8(Shl8(1, f)))]

setFlagValue(c, flag, val) == IF val = 1 THEN setFlags(c, flag) ELSE resetFlags(c, flag)

getFlagValue(c, flag) == Shr8(BitAnd(c.status, Shl8(1, flag)), flag)

updateZandN(c, val) ==
    LET c1 == IF val = 0 THEN setFlags(c, Z) ELSE resetFlags(c, Z)
    IN  IF BitAnd(val, 128) = 128 THEN setFlags(c1, Z) ELSE resetFlags(c1, Z)

----------------------------------------------------------------------------
(* Instructions                                                            *)

\* if res > bound { c.setFlags(flag) }, the comparison made on the uint8 res
SetIfAbove(c, res, bound, flag) == IF res > bound THEN setFlags(c, flag) ELSE c

adc(c, mode) ==
    LET address == address_operand(c, mode)
        value   == mem_read(c, address)
        res     == Byte(c.accumulator + value + getFlagValue(c, C))
        c1      == SetIfAbove(c, res, 255, C)
        c2      == SetIfAbove(c1, res, 127, V)
        c3      == [c2 EXCEPT !.accumulator = res]
    IN  updateZandN(c3, c3.accumulator)

and(c, mode) ==
    LET address == address_operand(c, mode)
        value   == mem_read(c, address)
        c1      == [c EXCEPT !.accumulator = BitAnd(c.accumulator, value)]
    IN  updateZandN(c1, c1.accumulator)

asl(c, mode) ==
    LET c2 == IF mode = "modeAccumulator"
              THEN LET c1 == setFlagValue(c, C, extractBit(c.accumulator, 7))
                   IN  [c1 EXCEPT !.accumulator = Shl8(c1.accumulator, 1)]
              ELSE LET address == address_operand(c, mode)
                       value   == mem_read(c, address)
                       c1      == setFlagValue(c, C, extractBit(value, 7))
                   IN  mem_write(c1, address, Shl8(value, 1))
    IN  updateZandN(c2, c2.status)

\* the body shared by the branch instructions: taken when flag has value want
Branch(c, flag, want) ==
    IF getFlagValue(c, flag) = want
    THEN LET address == address_operand(c, "modeRelative")
             value   == mem_read(c, address)
         IN  [c EXCEPT !.program_counter = Word(c.program_counter + value)]
    ELSE c

bcc(c) == Branch(c, C, 0)

bcs(c) == Branch(c, C, 1)

beq(c) == Branch(c, Z, 1)

bit(c, mode) ==
    LET address == address_operand(c, mode)
        value   == mem_read(c, address)
        res     == BitAnd(c.accumulator, value)
        c1      == IF res = 0 THEN setFlags(c, Z) ELSE resetFlags(c, Z)
        c2      == setFlagValue(c1, V, extractBit(res, 6))
    IN  setFlagValue(c2, N, extractBit(res, 7))

bmi(c) == Branch(c, N, 1)

bne(c) == Branch(c, C, 0)

bpl(c) == Branch(c, N, 0)

brk(c) ==
    LET c1 == push_16(c, c.program_counter)
        c2 == push(c1, c1.status)
        c3 == [c2 EXCEPT !.program_counter = mem_read_16(c2, IRQ)]
    IN  setFlags(c3, B)

bvc(c) == Branch(c, V, 0)

bvs(c) == Branch(c, V, 1)

clc(c) == resetFlags(c, C)

cld(c) == resetFlags(c, D)

cli(c) == resetFlags(c, I)

clv(c) == resetFlags(c, V)

\* the body shared by cmp, cpx and cpy; res >= uint8(0) holds of every uint8
Compare(c, reg, mode) ==
    LET address == address_operand(c, mode)
        value   == mem_read(c, address)
        res     == Byte(reg - value + 256)
        c1      == IF res >= 0 THEN setFlags(c, C) ELSE c
    IN  updateZandN(c1, res)

cmp(c, mode) == Compare(c, c.accumulator, mode)

cpx(c, mode) == Compare(c, c.index_x, mode)

cpy(c, mode) == Compare(c, c.index_y, mode)

dec(c, mode) ==
    LET address == address_operand(c, mode)
        value   == Byte(mem_read(c, address) - 1 + 256)
    IN  updateZandN(mem_write(c, address, value), value)

dex(c) ==
    LET c1 == [c EXCEPT !.index_x = Byte(c.index_x - 1 + 256)]
    IN  updateZandN(c1, c1.index_x)

dey(c) ==
    LET c1 == [c EXCEPT !.index_y = Byte(c.index_y - 1 + 256)]
    IN  updateZandN(c1, c1.index_y)

eor(c, mode) ==
    LET address == address_operand(c, mode)
        value   == mem_read(c, address)
        c1      == [c EXCEPT !.accumulator = BitXor(c.accumulator, value)]
    IN  updateZandN(c1, c1.accumulator)

inc(c, mode) ==
    LET address == address_operand(c, mode)
        value   == Byte(mem_read(c, address) + 1)
    IN  updateZandN(mem_write(c, address, value), value)

inx(c) ==
    LET c1 == [c EXCEPT !.index_x = Byte(c.index_x + 1)]
    IN  updateZandN(c1, c1.index_x)

iny(c) ==
    LET c1 == [c EXCEPT !.index_y = Byte(c.index_y + 1)]
    IN  updateZandN(c1, c1.index_y)

jmp(c, mode) == [c EXCEPT !.program_counter = address_operand(c, mode)]

jsr(c) ==
    LET c1      == push_16(c, Word(c.program_counter - 1 + 65536))
        address == address_operand(c1, "modeAbsolute")
    IN  [c1 EXCEPT !.program_counter = address]

lda(c, mode) ==
    LET address == address_operand(c, mode)
        c1      == [c EXCEPT !.accumulator = mem_read(c, address)]
    IN  updateZandN(c1, c1.accumulator)

ldx(c, mode) ==
    LET address == address_operand(c, mode)
        c1      == [c EXCEPT !.index_x = mem_read(c, address)]
    IN  updateZandN(c1, c1.index_x)

ldy(c, mode) ==
    LET address == address_operand(c, mode)
        c1      == [c EXCEPT !.index_y = mem_read(c, address)]
    IN  updateZandN(c1, c1.index_y)

lsr(c, mode) ==
    IF mode = "modeAccumulator"
    THEN LET c1 == setFlagValue(c, C, extractBit(c.accumulator, 0))
             c2 == [c1 EXCEPT !.accumulator = Shr8(c1.accumulator, 1)]
         IN  updateZandN(c2, c2.accumulator)
    ELSE LET address == address_operand(c, mode)
             value   == mem_read(c, address)
             c1      == setFlagValue(c, C, extractBit(value, 0))
             shifted == Shr8(value, 1)
         IN  updateZandN(mem_write(c1, address, shifted), shifted)

nop(c) == c

ora(c, mode) ==
    LET address == address_operand(c, mode)
        value   == mem_read(c, address)
        c1      == [c EXCEPT !.accumulator = BitOr(c.accumulator, value)]
    IN  updateZandN(c1, c1.accumulator)

pha(c) == push(c, c.accumulator)

php(c) == push(c, c.status)

pla(c) ==
    LET c1 == [pop(c) EXCEPT !.accumulator = pop_value(c)]
    IN  updateZandN(c1, c1.accumulator)

plp(c) ==
    LET c1 == [pop(c) EXCEPT !.status = pop_value(c)]
    IN  updateZandN(c1, c1.status)

rol(c, mode) ==
    IF mode = "modeAccumulator"
    THEN LET prevCarry == extractBit(c.status, 0)
             c1 == setFlagValue(c, C, extractBit(c.accumulator, 7))
             c2 == [c1 EXCEPT !.accumulator = BitOr(Shl8(c1.accumulator, 1), prevCarry)]
         IN  updateZandN(c2, c2.accumulator)
    ELSE LET address   == address_operand(c, mode)
             value     == mem_read(c, address)
             prevCarry == extractBit(c.status, 0)
             c1        == setFlagValue(c, C, extractBit(value, 7))
             rotated   == BitOr(Shl8(value, 1), prevCarry)
         IN  updateZandN(mem_write(c1, address, rotated), rotated)

ror(c, mode) ==
    IF mode = "modeAccumulator"
    THEN LET prevCarry == extractBit(c.status, 0)
             c1 == setFlagValue(c, C, extractBit(c.accumulator, 0))
             c2 == [c1 EXCEPT !.accumulator =
                        BitOr(Shr8(c1.accumulator, 1), Shl8(prevCarry, 7))]
         IN  updateZandN(c2, c2.accumulator)
    ELSE LET address   == address_operand(c, mode)
             value     == mem_read(c, address)
             prevCarry == extractBit(c.status, 0)
             c1        == setFlagValue(c, C, extractBit(c.accumulator, 0))
             rotated   == BitOr(Shr8(value, 1), Shl8(prevCarry, 7))
         IN  updateZandN(mem_write(c1, address, rotated), rotated)

rti(c) ==
    LET c1 == [pop(c) EXCEPT !.status = pop_value(c)]
    IN  [pop_16(c1) EXCEPT !.program_counter = pop_16_value(c1)]

rts(c) == [pop_16(c) EXCEPT !.program_counter = pop_16_value(c)]

sec(c) == setFlagValue(c, C, 1)

sed(c) == setFlagValue(c, D, 1)

sei(c) == setFlagValue(c, I, 1)

sta(c, mode) == mem_write(c, address_operand(c, mode), c.accumulator)

stx(c, mode) == mem_write(c, address_operand(c, mode), c.index_x)

sty(c, mode) == mem_write(c, address_operand(c, mode), c.index_y)

tax(c) ==
    LET c1 == [c EXCEPT !.index_x = c.accumulator]
    IN  updateZandN(c1, c1.index_x)

tay(c) ==
    LET c1 == [c EXCEPT !.index_y = c.accumulator]
    IN  updateZandN(c1, c1.index_y)

tsx(c) ==
    LET c1 == [c EXCEPT !.index_x = c.status]
    IN  updateZandN(c1, c1.index_x)

txa(c) ==
    LET c1 == [c EXCEPT !.accumulator = c.index_x]
    IN  updateZandN(c1, c1.accumulator)

txs(c) ==
    LET c1 == [c EXCEPT !.status = c.index_x]
    IN  updateZandN(c1, c1.index_x)

tya(c) ==
    LET c1 == [c EXCEPT !.accumulator = c.index_y]
    IN  updateZandN(c1, c1.accumulator)

----------------------------------------------------------------------------
(* Load, reset and the fetch-decode-execute loop                           *)

\* load indexes the slice with the int 0x8000+i: past 0xFFFF that is a run-time panic
loadPanics(instructions) == Len(instructions) > \H10000 - \H8000

\* load without its last line: the reset vector is left as it was
load_without_vector(c, instructions) ==
    LET n       == IF loadPanics(instructions) THEN \H8000 ELSE Len(instructions)
        written == \H8000 .. (\H8000 + n - 1)
        new(a)  == IF a \in written THEN instructions[a - \H8000 + 1]
                                    ELSE MemAt(c.memory, a)
        keep    == { a \in (DOMAIN c.memory) \cup written : new(a) # 0 }
    IN  [c EXCEPT !.memory = [a \in keep |-> new(a)]]

load(c, instructions) ==
    LET n       == IF loadPanics(instructions) THEN \H8000 ELSE Len(instructions)
        written == \H8000 .. (\H8000 + n - 1)
        new(a)  == IF a \in written THEN instructions[a - \H8000 + 1]
                                    ELSE MemAt(c.memory, a)
        keep    == { a \in (DOMAIN c.memory) \cup written : new(a) # 0 }
        c1      == [c EXCEPT !.memory = [a \in keep |-> new(a)]]
    IN  IF loadPanics(instructions) THEN c1 ELSE mem_write_16(c1, \HFFFC, \H8000)

\* reset that loads program_counter from the interrupt vector
reset_from_IRQ(c) ==
    [c EXCEPT !.accumulator = 0,
              !.index_x = 0,
              !.index_y = 0,
              !.status = 36,
              !.stack_pointer = STACK_RESET,
              !.program_counter = mem_read_16(c, IRQ)]

reset(c) ==
    [c EXCEPT !.accumulator = 0,
              !.index_x = 0,
              !.index_y = 0,
              !.status = 36,
              !.stack_pointer = STACK_RESET,
              !.program_counter = mem_read_16(c, \HFFFC)]

NewCPU ==
    [accumulator |-> 0, index_x |-> 0, index_y |-> 0, status |-> 36,
     program_counter |-> 0, stack_pointer |-> STACK_RESET, memory |-> <<>>]

\* the switch of Interpret: for each case, the method called, the mode passed
\* and what the case adds to program_counter after the call
Decode(opcode) ==
    CASE opcode = \H69 -> <<"adc", "modeImmediate", 1>>
      [] opcode = \H65 -> <<"adc", "modeZeroPage", 1>>
      [] opcode = \H75 -> <<"adc", "modeZeroPageX", 1>>
      [] opcode = \H6D -> <<"adc", "modeAbsolute", 2>>
      [] opcode = \H7D -> <<"adc", "modeAbsoluteX", 2>>
      [] opcode = \H79 -> <<"adc", "modeAbsoluteY", 2>>
      [] opcode = \H61 -> <<"adc", "modeIndirectX", 1>>
      [] opcode = \H71 -> <<"adc", "modeIndirectY", 1>>
      [] opcode = \H29 -> <<"and", "modeImmediate", 1>>
      [] opcode = \H25 -> <<"and", "modeZeroPage", 1>>
      [] opcode = \H35 -> <<"and", "modeZeroPageX", 1>>
      [] opcode = \H2D -> <<"and", "modeAbsolute", 2>>
      [] opcode = \H3D -> <<"and", "modeAbsoluteX", 2>>
      [] opcode = \H39 -> <<"and", "modeAbsoluteY", 2>>
      [] opcode = \H21 -> <<"and", "modeIndirectX", 1>>
      [] opcode = \H31 -> <<"and", "modeIndirectY", 1>>
      [] opcode = \H0A -> <<"asl", "modeAccumulator", 0>>
      [] opcode = \H06 -> <<"asl", "modeZeroPage", 1>>
      [] opcode = \H16 -> <<"asl", "modeZeroPageX", 1>>
      [] opcode = \H0E -> <<"asl", "modeAbsolute", 2>>
      [] opcode = \H1E -> <<"asl", "modeAbsoluteX", 2>>
      [] opcode = \H90 -> <<"bcc", "modeNoneAddressing", 1>>
      [] opcode = \HB0 -> <<"bcs", "modeNoneAddressing", 1>>
      [] opcode = \HF0 -> <<"beq", "modeNoneAddressing", 1>>
      [] opcode = \H24 -> <<"bit", "modeZeroPage", 1>>
      [] opcode = \H2C -> <<"bit", "modeAbsolute", 2>>
      [] opcode = \H30 -> <<"bmi", "modeNoneAddressing", 1>>
      [] opcode = \HD0 -> <<"bne", "modeNoneAddressing", 1>>
      [] opcode = \H10 -> <<"bpl", "modeNoneAddressing", 1>>
      [] opcode = \H00 -> <<"brk", "modeNoneAddressing", 0>>
      [] opcode = \H50 -> <<"bvc", "modeNoneAddressing", 1>>
      [] opcode = \H70 -> <<"bvs", "modeNoneAddressing", 1>>
      [] opcode = \H18 -> <<"clc", "modeNoneAddressing", 0>>
      [] opcode = \HD8 -> <<"cld", "modeNoneAddressing", 0>>
      [] opcode = \H58 -> <<"cli", "modeNoneAddressing", 0>>
      [] opcode = \HB8 -> <<"clv", "modeNoneAddressing", 0>>
      [] opcode = \HC9 -> <<"cmp", "modeImmediate", 1>>
      [] opcode = \HC5 -> <<"cmp", "modeZeroPage", 1>>
      [] opcode = \HD5 -> <<"cmp", "modeZeroPageX", 1>>
      [] opcode = \HCD -> <<"cmp", "modeAbsolute", 2>>
      [] opcode = \HDD -> <<"cmp", "modeAbsoluteX", 2>>
      [] opcode = \HD9 -> <<"cmp", "modeAbsoluteY", 2>>
      [] opcode = \HC1 -> <<"cmp", "modeIndirectX", 1>>
      [] opcode = \HD1 -> <<"cmp", "modeIndirectY", 1>>
      [] opcode = \HE0 -> <<"cpx", "modeImmediate", 1>>
      [] opcode = \HE4 -> <<"cpx", "modeZeroPage", 1>>
      [] opcode = \HEC -> <<"cpx", "modeAbsolute", 2>>
      [] opcode = \HC0 -> <<"cpy", "modeImmediate", 1>>
      [] opcode = \HC4 -> <<"cpy", "modeZeroPage", 1>>
      [] opcode = \HCC -> <<"cpy", "modeAbsolute", 2>>
      [] opcode = \HC6 -> <<"dec", "modeZeroPage", 1>>
      [] opcode = \HD6 -> <<"dec", "modeZeroPageX", 1>>
      [] opcode = \HCE -> <<"dec", "modeAbsolute", 2>>
      [] opcode = \HDE -> <<"dec", "modeAbsoluteX", 2>>
      [] opcode = \HCA -> <<"dex", "modeNoneAddressing", 0>>
      [] opcode = \H88 -> <<"dey", "modeNoneAddressing", 0>>
      [] opcode = \H49 -> <<"eor", "modeImmediate", 1>>
      [] opcode = \H45 -> <<"eor", "modeZeroPage", 1>>
      [] opcode = \H55 -> <<"eor", "modeZeroPageX", 1>>
      [] opcode = \H4D -> <<"eor", "modeAbsolute", 2>>
      [] opcode = \H5D -> <<"eor", "modeAbsoluteX", 2>>
      [] opcode = \H59 -> <<"eor", "modeAbsoluteY", 2>>
      [] opcode = \H41 -> <<"eor", "modeIndirectX", 1>>
      [] opcode = \H51 -> <<"eor", "modeIndirectY", 1>>
      [] opcode = \HE6 -> <<"inc", "modeZeroPage", 1>>
      [] opcode = \HF6 -> <<"inc", "modeZeroPageX", 1>>
      [] opcode = \HEE -> <<"inc", "modeAbsolute", 2>>
      [] opcode = \HFE -> <<"inc", "modeAbsoluteX", 2>>
      [] opcode = \HE8 -> <<"inx", "modeNoneAddressing", 0>>
      [] opcode = \HC8 -> <<"iny", "modeNoneAddressing", 0>>
      [] opcode = \H4C -> <<"jmp", "modeAbsolute", 2>>
      [] opcode = \H6C -> <<"jmp", "modeIndirect", 2>>
      [] opcode = \H20 -> <<"jsr", "modeNoneAddressing", 2>>
      [] opcode = \HA9 -> <<"lda", "modeImmediate", 1>>
      [] opcode = \HA5 -> <<"lda", "modeZeroPage", 1>>
      [] opcode = \HB5 -> <<"lda", "modeZeroPageX", 1>>
      [] opcode = \HAD -> <<"lda", "modeAbsolute", 2>>
      [] opcode = \HBD -> <<"lda", "modeAbsoluteX", 2>>
      [] opcode = \HB9 -> <<"lda", "modeAbsoluteY", 2>>
      [] opcode = \HA1 -> <<"lda", "modeIndirectX", 1>>
      [] opcode = \HB1 -> <<"lda", "modeIndirectY", 1>>
      [] opcode = \HA2 -> <<"ldx", "modeImmediate", 1>>
      [] opcode = \HA6 -> <<"ldx", "modeZeroPage", 1>>
      [] opcode = \HAE -> <<"ldx", "modeAbsolute", 2>>
      [] opcode = \HBE -> <<"ldx", "modeAbsoluteY", 2>>
      [] opcode = \HA0 -> <<"ldy", "modeImmediate", 1>>
      [] opcode = \HA4 -> <<"ldy", "modeZeroPage", 1>>
      [] opcode = \HB4 -> <<"ldy", "modeZeroPageX", 1>>
      [] opcode = \HAC -> <<"ldy", "modeAbsolute", 2>>
      [] opcode = \HBC -> <<"ldy", "modeAbsoluteX", 2>>
      [] opcode = \H4A -> <<"lsr", "modeAccumulator", 0>>
      [] opcode = \H46 -> <<"lsr", "modeZeroPage", 1>>
      [] opcode = \H56 -> <<"lsr", "modeZeroPageX", 1>>
      [] opcode = \H4E -> <<"lsr", "modeAbsolute", 2>>
      [] opcode = \H5E -> <<"lsr", "modeAbsoluteX", 2>>
      [] opcode = \HEA -> <<"nop", "modeNoneAddressing", 0>>
      [] opcode = \H09 -> <<"ora", "modeImmediate", 1>>
      [] opcode = \H05 -> <<"ora", "modeZeroPage", 1>>
      [] opcode = \H15 -> <<"ora", "modeZeroPageX", 1>>
      [] opcode = \H0D -> <<"ora", "modeAbsolute", 2>>
      [] opcode = \H1D -> <<"ora", "modeAbsoluteX", 2>>
      [] opcode = \H19 -> <<"ora", "modeAbsoluteY", 2>>
      [] opcode = \H01 -> <<"ora", "modeIndirectX", 1>>
      [] opcode = \H11 -> <<"ora", "modeIndirectY", 1>>
      [] opcode = \H48 -> <<"pha", "modeNoneAddressing", 0>>
      [] opcode = \H08 -> <<"php", "modeNoneAddressing", 0>>
      [] opcode = \H68 -> <<"pla", "modeNoneAddressing", 0>>
      [] opcode = \H28 -> <<"plp", "modeNoneAddressing", 0>>
      [] opcode = \H2A -> <<"rol", "modeAccumulator", 0>>
      [] opcode = \H26 -> <<"rol", "modeZeroPage", 1>>
      [] opcode = \H36 -> <<"rol", "modeZeroPageX", 1>>
      [] opcode = \H2E -> <<"rol", "modeAbsolute", 2>>
      [] opcode = \H3E -> <<"rol", "modeAbsoluteX", 2>>
      [] opcode = \H6A -> <<"ror", "modeAccumulator", 0>>
      [] opcode = \H66 -> <<"ror", "modeZeroPage", 1>>
      [] opcode = \H76 -> <<"ror", "modeZeroPageX", 1>>
      [] opcode = \H6E -> <<"ror", "modeAbsolute", 2>>
      [] opcode = \H7E -> <<"ror", "modeAbsoluteX", 2>>
      [] opcode = \H40 -> <<"rti", "modeNoneAddressing", 0>>
      [] opcode = \H60 -> <<"rts", "modeNoneAddressing", 0>>
      [] opcode = \H38 -> <<"sec", "modeNoneAddressing", 0>>
      [] opcode = \HF8 -> <<"sed", "modeNoneAddressing", 0>>
      [] opcode = \H78 -> <<"sei", "modeNoneAddressing", 0>>
      [] opcode = \H85 -> <<"sta", "modeZeroPage", 1>>
      [] opcode = \H95 -> <<"sta", "modeZeroPageX", 1>>
      [] opcode = \H8D -> <<"sta", "modeAbsolute", 2>>
      [] opcode = \H9D -> <<"sta", "modeAbsoluteX", 2>>
      [] opcode = \H99 -> <<"sta", "modeAbsoluteY", 2>>
      [] opcode = \H81 -> <<"sta", "modeIndirectX", 1>>
      [] opcode = \H91 -> <<"sta", "modeIndirectY", 1>>
      [] opcode = \H86 -> <<"stx", "modeZeroPage", 1>>
      [] opcode = \H96 -> <<"stx", "modeZeroPageY", 1>>
      [] opcode = \H8E -> <<"stx", "modeAbsolute", 2>>
      [] opcode = \H84 -> <<"sty", "modeZeroPage", 1>>
      [] opcode = \H94 -> <<"sty", "modeZeroPageX", 1>>
      [] opcode = \H8C -> <<"sty", "modeAbsolute", 1>>
      [] opcode = \HAA -> <<"tax", "modeNoneAddressing", 0>>
      [] opcode = \HA8 -> <<"tay", "modeNoneAddressing", 0>>
      [] opcode = \HBA -> <<"tsx", "modeNoneAddressing", 0>>
      [] opcode = \H8A -> <<"txa", "modeNoneAddressing", 0>>
      [] opcode = \H9A -> <<"txs", "modeNoneAddressing", 0>>
      [] opcode = \H98 -> <<"tya", "modeNoneAddressing", 0>>
      [] OTHER -> <<"undefined", "modeNoneAddressing", 0>>

DecodeTable == [opcode \in 0 .. 255 |-> Decode(opcode)]

Execute(c, ins, mode) ==
    CASE ins = "adc" -> adc(c, mode)
      [] ins = "and" -> and(c, mode)
      [] ins = "asl" -> asl(c, mode)
      [] ins = "bcc" -> bcc(c)
      [] ins = "bcs" -> bcs(c)
      [] ins = "beq" -> beq(c)
      [] ins = "bit" -> bit(c, mode)
      [] ins = "bmi" -> bmi(c)
      [] ins = "bne" -> bne(c)
      [] ins = "bpl" -> bpl(c)
      [] ins = "brk" -> brk(c)
      [] ins = "bvc" -> bvc(c)
      [] ins = "bvs" -> bvs(c)
      [] ins = "clc" -> clc(c)
      [] ins = "cld" -> cld(c)
      [] ins = "cli" -> cli(c)
      [] ins = "clv" -> clv(c)
      [] ins = "cmp" -> cmp(c, mode)
      [] ins = "cpx" -> cpx(c, mode)
      [] ins = "cpy" -> cpy(c, mode)
      [] ins = "dec" -> dec(c, mode)
      [] ins = "dex" -> dex(c)
      [] ins = "dey" -> dey(c)
      [] ins = "eor" -> eor(c, mode)
      [] ins = "inc" -> inc(c, mode)
      [] ins = "inx" -> inx(c)
      [] ins = "iny" -> iny(c)
      [] ins = "jmp" -> jmp(c, mode)
      [] ins = "jsr" -> jsr(c)
      [] ins = "lda" -> lda(c, mode)
      [] ins = "ldx" -> ldx(c, mode)
      [] ins = "ldy" -> ldy(c, mode)
      [] ins = "lsr" -> lsr(c, mode)
      [] ins = "nop" -> nop(c)
      [] ins = "ora" -> ora(c, mode)
      [] ins = "pha" -> pha(c)
      [] ins = "php" -> php(c)
      [] ins = "pla" -> pla(c)
      [] ins = "plp" -> plp(c)
      [] ins = "rol" -> rol(c, mode)
      [] ins = "ror" -> ror(c, mode)
      [] ins = "rti" -> rti(c)
      [] ins = "rts" -> rts(c)
      [] ins = "sec" -> sec(c)
      [] ins = "sed" -> sed(c)
      [] ins = "sei" -> sei(c)
      [] ins = "sta" -> sta(c, mode)
      [] ins = "stx" -> stx(c, mode)
      [] ins = "sty" -> sty(c, mode)
      [] ins = "tax" -> tax(c)
      [] ins = "tay" -> tay(c)
      [] ins = "tsx" -> tsx(c)
      [] ins = "txa" -> txa(c)
      [] ins = "txs" -> txs(c)
      [] ins = "tya" -> tya(c)
      [] OTHER -> c

\* the opcode the loop fetches next
Fetch(c) == MemAt(c.memory, c.program_counter)

Undefined(opcode) == DecodeTable[opcode][1] = "undefined"

\* a slip the undefined-opcode claim must catch: the default case consuming an
\* operand byte, as the one-operand cases do
InterpretStep_default_advances(c) ==
    LET opcode == Fetch(c)
        c1     == [c EXCEPT !.program_counter = Word(c.program_counter + 1)]
        entry  == DecodeTable[opcode]
        c2     == Execute(c1, entry[1], entry[2])
        adv    == IF entry[1] = "undefined" THEN 1 ELSE entry[3]
    IN  [c2 EXCEPT !.program_counter = Word(c2.program_counter + adv)]

\* one iteration of the for-loop of Interpret: the CPU it leaves
InterpretStep(c) ==
    LET opcode == Fetch(c)
        c1     == [c EXCEPT !.program_counter = Word(c.program_counter + 1)]
        entry  == DecodeTable[opcode]
        c2     == Execute(c1, entry[1], entry[2])
    IN  [c2 EXCEPT !.program_counter = Word(c2.program_counter + entry[3])]

\* one iteration of the for-loop of Interpret: what it prints
InterpretPrints(c) ==
    IF Undefined(Fetch(c))
    THEN << <<Fetch(c), Word(c.program_counter + 1)>> >>
    ELSE << >>

----------------------------------------------------------------------------
(* Bounds                                                                  *)

\* iterations of the Interpret loop that are followed
MaxSteps == 4

\* direct calls of the helper methods that are followed
MaxCalls == 4

----------------------------------------------------------------------------
(* The program as main runs it: NewCPU, then Load_and_interpret            *)

\* a log entry: the operation, its arguments, what it returned, and the CPU and
\* output it started from
Call(op, arg, ret) == [op |-> op, arg |-> arg, ret |-> ret, pre |-> cpu, out |-> stdout]

\* instruction sequences the loader hands over
LDA_BEQ_Program == << \HA9, \H00, \HF0, \H02, \HA9, \H01, \H00 >>

JSR_RTS_Program == << \H20, \H06, \H80, \HA9, \H01, \H00, \H60 >>

Snippets ==
    { << \HA9, \H00 >>, << \HA9, \H80 >>, << \HA9, \HFF >>, << \H69, \H01 >>,
      << \HF0, \H02 >>, << \H48 >>, << \H68 >>, << \HFF >>, << \H02 >>,
      << \HEA >>, << \H00 >>, << \H60 >>, << \H20, \H04, \H80 >> }

\* a buffer of n bytes, as read from a ROM file: zero padding around a few bytes
ROM(n) == [i \in 1 .. n |-> IF i \in { 1, \H7FFD, \H7FFE, n } THEN \HA5 ELSE 0]

\* a ROM of 32 KiB and one byte: one byte more than fits above 0x8000
OversizedROM == ROM(\H8000 + 1)

Programs ==
    { LDA_BEQ_Program, JSR_RTS_Program, << >>, OversizedROM }
        \cup { s \o t : s \in Snippets, t \in Snippets }

Init ==
    /\ cpu = NewCPU
    /\ stdout = << >>
    /\ running = FALSE
    /\ panic = FALSE
    /\ hist = << >>

\* load, reset, and entry into the loop of Interpret; a buffer that load cannot
\* index ends the process inside load, before the reset vector is written
Load_and_interpret ==
    /\ ~running
    /\ hist = << >>
    /\ \E instructions \in Programs :
          /\ cpu' = IF loadPanics(instructions) THEN load(cpu, instructions)
                                                ELSE reset(load(cpu, instructions))
          /\ panic' = loadPanics(instructions)
          /\ running' = ~loadPanics(instructions)
          /\ hist' = Append(hist, Call("Load_and_interpret", instructions, 0))
    /\ UNCHANGED stdout

\* iterations of the loop made so far
Steps == Cardinality({ i \in 1 .. Len(hist) : hist[i].op = "Interpret" })

Interpret ==
    /\ running
    /\ Steps < MaxSteps
    /\ cpu' = InterpretStep(cpu)
    /\ stdout' = stdout \o InterpretPrints(cpu)
    /\ hist' = Append(hist, Call("Interpret", << Fetch(cpu) >>, 0))
    /\ UNCHANGED << running, panic >>

Next == Load_and_interpret \/ Interpret

Spec == Init /\ [][Next]_vars

----------------------------------------------------------------------------
(* Reading the log                                                         *)

Last == hist[Len(hist)]

\* the CPU and the output before and after the i-th logged operation
Before(i) == hist[i].pre

After(i) == IF i < Len(hist) THEN hist[i + 1].pre ELSE cpu

OutBefore(i) == hist[i].out

OutAfter(i) == IF i < Len(hist) THEN hist[i + 1].out ELSE stdout

\* the i-th logged operation is a loop iteration that ran instruction ins
Ran(i, ins) == hist[i].op = "Interpret" /\ DecodeTable[hist[i].arg[1]][1] = ins

\* a CPU as a program can leave it: registers, and bytes placed over a memory image
CPUWith(a, x, y, st, sp, pcv, memory) ==
    [accumulator |-> a, index_x |-> x, index_y |-> y, status |-> st,
     program_counter |-> pcv, stack_pointer |-> sp, memory |-> memory]

RECURSIVE Place(_, _, _)
Place(memory, address, bytes) ==
    IF bytes = << >> THEN memory
    ELSE Place(MemPut(memory, address, Head(bytes)), Word(address + 1), Tail(bytes))

----------------------------------------------------------------------------
(* C1: the branch program end to end                                       *)

\* C1: after load of LDA #0, BEQ +2, LDA #1, BRK, reset and exactly three loop
\* iterations, the accumulator is 0x00 and the Zero flag is set.
C1_BranchEndToEnd ==
    ( /\ Len(hist) >= 1
      /\ hist[1].op = "Load_and_interpret"
      /\ hist[1].arg = LDA_BEQ_Program
      /\ Steps = 3 )
    => (cpu.accumulator = 0 /\ getFlagValue(cpu, Z) = 1)

----------------------------------------------------------------------------
(* C2: updateZandN, called on any byte from any status                     *)

ByteSamples == { \H00, \H01, \H7F, \H80, \HFF }

StatusSamples == { \H00, \H02, \H24, \H80, \H82, \HFF }

InitFlags ==
    /\ \E st \in StatusSamples : cpu = [NewCPU EXCEPT !.status = st]
    /\ stdout = << >>
    /\ running = FALSE
    /\ panic = FALSE
    /\ hist = << >>

Call_updateZandN ==
    /\ Len(hist) < MaxCalls
    /\ \E val \in ByteSamples :
          /\ cpu' = updateZandN(cpu, val)
          /\ hist' = Append(hist, Call("updateZandN", << val >>, 0))
    /\ UNCHANGED << stdout, running, panic >>

SpecFlags == InitFlags /\ [][Call_updateZandN]_vars

\* C2: after updateZandN(v), whatever the status was, Zero is set iff v = 0 and
\* Negative is set iff bit 7 of v is 1.
C2_ZeroAndNegativeFollowValue ==
    (Len(hist) >= 1 /\ Last.op = "updateZandN")
    => LET v == Last.arg[1]
       IN  /\ (getFlagValue(cpu, Z) = 1) <=> (v = 0)
           /\ (getFlagValue(cpu, N) = 1) <=> (BitOf(v, 7) = 1)

----------------------------------------------------------------------------
(* C3, C4: the stack helpers, called from any stack pointer                *)

StackPointerSamples == { \HFD, \HFF, \H00, \H01 }

\* memory left by earlier code: stale bytes in the zero page and in the stack page
StaleStack ==
    Place(Place(<< >>, \H00FB, << \H0A, \H0B, \H0C, \H0D, \H0E >>),
          \H01FB, << \H1A, \H1B, \H1C, \H1D, \H1E >>)

PushSamples == { \H11, \H22 }

Push16Samples == { \H1234, \HABCD }

InitStack ==
    /\ \E sp \in StackPointerSamples, memory \in { << >>, StaleStack } :
          cpu = [NewCPU EXCEPT !.stack_pointer = sp, !.memory = memory]
    /\ stdout = << >>
    /\ running = FALSE
    /\ panic = FALSE
    /\ hist = << >>

Call_push ==
    /\ Len(hist) < MaxCalls
    /\ \E data \in PushSamples :
          /\ cpu' = push(cpu, data)
          /\ hist' = Append(hist, Call("push", << data >>, 0))
    /\ UNCHANGED << stdout, running, panic >>

Call_pop ==
    /\ Len(hist) < MaxCalls
    /\ cpu' = pop(cpu)
    /\ hist' = Append(hist, Call("pop", << >>, pop_value(cpu)))
    /\ UNCHANGED << stdout, running, panic >>

Call_push_16 ==
    /\ Len(hist) < MaxCalls
    /\ \E data \in Push16Samples :
          /\ cpu' = push_16(cpu, data)
          /\ hist' = Append(hist, Call("push_16", << data >>, 0))
    /\ UNCHANGED << stdout, running, panic >>

Call_pop_16 ==
    /\ Len(hist) < MaxCalls
    /\ cpu' = pop_16(cpu)
    /\ hist' = Append(hist, Call("pop_16", << >>, pop_16_value(cpu)))
    /\ UNCHANGED << stdout, running, panic >>

NextStack == Call_push \/ Call_pop \/ Call_push_16 \/ Call_pop_16

SpecStack == InitStack /\ [][NextStack]_vars

\* C3: n calls of push followed by n calls of pop return the pushed values in
\* reverse order, from any starting stack_pointer.
C3_PushPopRoundTrip ==
    \A n \in 1 .. MaxCalls :
        ( /\ Len(hist) = 2 * n
          /\ \A i \in 1 .. n : hist[i].op = "push"
          /\ \A i \in (n + 1) .. (2 * n) : hist[i].op = "pop" )
        => \A i \in 1 .. n : hist[n + i].ret = hist[n + 1 - i].arg[1]

\* C4: push_16(x) immediately followed by pop_16() returns x and leaves
\* stack_pointer where it started.
C4_Push16Pop16RoundTrip ==
    ( /\ Len(hist) >= 2
      /\ Last.op = "pop_16"
      /\ hist[Len(hist) - 1].op = "push_16" )
    => /\ Last.ret = hist[Len(hist) - 1].arg[1]
       /\ cpu.stack_pointer = hist[Len(hist) - 1].pre.stack_pointer

----------------------------------------------------------------------------
(* C5: the 16-bit memory helpers                                           *)

AddressSamples == { \H0000, \H00FF, \H01FF, \H8000, \HFFFC, \HFFFF }

WordSamples == { \H0000, \H00FF, \H0100, \H1234, \H8000, \HFFFF }

\* memory left by earlier code around the sampled addresses
StaleMemory ==
    Place(Place(Place(<< >>, \HFFFE, << \HE1, \HE2 >>), \H0000, << \HE3, \HE4 >>),
          \H8000, << \HE5, \HE6 >>)

\* direct calls of mem_write_16 and mem_read_16 that are followed
MaxMemCalls == 2

InitMem ==
    /\ \E memory \in { << >>, StaleMemory } : cpu = [NewCPU EXCEPT !.memory = memory]
    /\ stdout = << >>
    /\ running = FALSE
    /\ panic = FALSE
    /\ hist = << >>

Call_mem_write_16 ==
    /\ Len(hist) < MaxMemCalls
    /\ \E address \in AddressSamples, data \in WordSamples :
          /\ cpu' = mem_write_16(cpu, address, data)
          /\ hist' = Append(hist, Call("mem_write_16", << address, data >>, 0))
    /\ UNCHANGED << stdout, running, panic >>

Call_mem_read_16 ==
    /\ Len(hist) < MaxMemCalls
    /\ \E address \in AddressSamples :
          hist' = Append(hist, Call("mem_read_16", << address >>, mem_read_16(cpu, address)))
    /\ UNCHANGED << cpu, stdout, running, panic >>

NextMem == Call_mem_write_16 \/ Call_mem_read_16

SpecMem == InitMem /\ [][NextMem]_vars

\* C5: mem_write_16(addr, x) leaves the low byte of x at addr and the high byte at
\* addr+1 (0x0000 when addr is 0xFFFF), and mem_read_16(addr) right after it
\* returns x.
C5_Write16Read16RoundTrip ==
    \A i \in 1 .. Len(hist) :
        hist[i].op = "mem_write_16"
        => LET address == hist[i].arg[1]
               data    == hist[i].arg[2]
           IN  /\ MemAt(After(i).memory, address) = data % 256
               /\ MemAt(After(i).memory, (address + 1) % 65536) = data \div 256
               /\ ( /\ i < Len(hist)
                    /\ hist[i + 1].op = "mem_read_16"
                    /\ hist[i + 1].arg[1] = address )
                  => hist[i + 1].ret = data

\* a write at 0xFFFF of a value with two different non-zero bytes, read back
C5_WrapWitness ==
    /\ Len(hist) = 2
    /\ hist[1].op = "mem_write_16"
    /\ hist[1].arg = << \HFFFF, \H1234 >>
    /\ hist[2].op = "mem_read_16"
    /\ hist[2].arg = << \HFFFF >>
    /\ hist[2].ret = \H1234
    /\ MemAt(cpu.memory, \H0000) = \H12

----------------------------------------------------------------------------
(* C6: ADC, run by the loop from any accumulator, operand and carry        *)

ArithmeticSamples == { \H00, \H01, \H50, \H7F, \H80, \HA0, \HFF }

\* ADC immediate, and ADC zero page with its operand at 0x0010
ADCImages ==
    { Place(<< >>, \H8000, << \H69, m >>) : m \in ArithmeticSamples }
        \cup { Place(Place(<< >>, \H8000, << \H65, \H10 >>), \H0010, << m >>) :
                   m \in ArithmeticSamples }

InitADC ==
    /\ \E a \in ArithmeticSamples, st \in { \H24, \H25, \HE4, \HE5 },
          memory \in ADCImages :
          cpu = CPUWith(a, 0, 0, st, STACK_RESET, \H8000, memory)
    /\ stdout = << >>
    /\ running = TRUE
    /\ panic = FALSE
    /\ hist = << >>

SpecADC == InitADC /\ [][Interpret]_vars

\* the byte an instruction run by the i-th logged iteration operates on
OperandOf(i) ==
    LET fetched == [Before(i) EXCEPT !.program_counter = Word(@ + 1)]
    IN  mem_read(fetched, address_operand(fetched, DecodeTable[hist[i].arg[1]][2]))

\* C6: after ADC the accumulator is (a+m+c) mod 256, Carry is set exactly when
\* a+m+c > 255, and Overflow is set exactly when a and m have the same sign bit
\* and the result's sign bit differs; 0xFF + 0x01 also sets Zero.
C6_ADCResultCarryOverflow ==
    \A i \in 1 .. Len(hist) :
        Ran(i, "adc")
        => LET a   == Before(i).accumulator
               m   == OperandOf(i)
               cin == getFlagValue(Before(i), C)
               sum == a + m + cin
               res == sum % 256
           IN  /\ After(i).accumulator = res
               /\ (getFlagValue(After(i), C) = 1) <=> (sum > 255)
               /\ (getFlagValue(After(i), V) = 1)
                      <=> (BitOf(a, 7) = BitOf(m, 7) /\ BitOf(res, 7) # BitOf(a, 7))
               /\ (a = \HFF /\ m = \H01 /\ cin = 0) => getFlagValue(After(i), Z) = 1

----------------------------------------------------------------------------
(* C7: JSR to a subroutine that returns at once                            *)

\* JSR t at p, RTS at t; the bytes after the RTS either zero or RTS again
JSRImages(p, t) ==
    { Place(Place(memory, p, << \H20, t % 256, t \div 256 >>), t, << \H60 >> \o rest) :
          memory \in { << >>, StaleStack },
          rest \in { << >>, << \H60, \H60 >> } }

InitJSR ==
    /\ \E p \in { \H8000, \H0200 }, t \in { \H9000, \H0300 },
          sp \in StackPointerSamples :
          \E memory \in JSRImages(p, t) :
              cpu = CPUWith(0, 0, 0, \H24, sp, p, memory)
    /\ stdout = << >>
    /\ running = TRUE
    /\ panic = FALSE
    /\ hist = << >>

SpecJSR == InitJSR /\ [][Interpret]_vars

\* C7: for a JSR at p whose target t holds RTS, once the loop has executed the
\* JSR and then an RTS, program_counter is p+3 and stack_pointer is what it was
\* before the JSR.
C7_JSRThenRTSReturns ==
    ( /\ Len(hist) >= 2
      /\ Ran(1, "jsr")
      /\ Ran(2, "rts")
      /\ LET p == Before(1).program_counter
             t == mem_read_16(Before(1), Word(p + 1))
         IN  MemAt(Before(1).memory, t) = \H60 )
    => /\ After(2).program_counter = Word(Before(1).program_counter + 3)
       /\ After(2).stack_pointer = Before(1).stack_pointer

----------------------------------------------------------------------------
(* C8: the address resolver, called in any mode                            *)

\* bytes around the pointers 0x30FF and 0x3080, and in the zero page
PointerTargets ==
    Place(Place(Place(Place(<< >>, \H30FF, << \H80, \H60 >>), \H3000, << \H50 >>),
                \H3080, << \H34, \H12 >>),
          \H00FF, << \H78, \H56 >>)

\* the operand bytes at program_counter: pointers whose low byte is and is not 0xFF
OperandSamples == { << \HFF, \H30 >>, << \H80, \H30 >>, << \HFF, \H00 >> }

InitAddr ==
    /\ \E operand \in OperandSamples, x \in { \H00, \H01 }, y \in { \H00, \H01 },
          pcv \in { \H8001, \HFFFF } :
          cpu = CPUWith(0, x, y, \H24, STACK_RESET, pcv, Place(PointerTargets, pcv, operand))
    /\ stdout = << >>
    /\ running = FALSE
    /\ panic = FALSE
    /\ hist = << >>

\* direct calls of address_operand that are followed
MaxAddrCalls == 2

Call_address_operand ==
    /\ Len(hist) < MaxAddrCalls
    /\ \E mode \in AddressingMode :
          hist' = Append(hist, Call("address_operand", << mode >>, address_operand(cpu, mode)))
    /\ UNCHANGED << cpu, stdout, running, panic >>

SpecAddr == InitAddr /\ [][Call_address_operand]_vars

\* C8: in Indirect mode the resolved address has its low byte read from the
\* pointer; its high byte is read from the start of the pointer's page when the
\* pointer's low byte is 0xFF, and from pointer+1 otherwise.
C8_IndirectPageWrap ==
    (Len(hist) >= 1 /\ Last.op = "address_operand" /\ Last.arg[1] = "modeIndirect")
    => LET pointer == mem_read_16(cpu, cpu.program_counter)
           high    == IF pointer % 256 = \HFF THEN pointer - \HFF
                                              ELSE (pointer + 1) % 65536
       IN  Last.ret = MemAt(cpu.memory, pointer) + 256 * MemAt(cpu.memory, high)

----------------------------------------------------------------------------
(* C9, C10: the loop started on any opcode byte                            *)

\* memory left by earlier code: bytes in the zero page, the stack page, and at
\* the addresses the sampled operands point to
Background ==
    Place(Place(Place(Place(<< >>, \H0000, << \H03, \H80, \H7F >>),
                      \H00FE, << \H40, \H30, \HC1, \H02 >>),
                \H01FC, << \H05, \H24, \H81, \H06 >>),
          \H30FF, << \H80, \H01, \HFF >>)

InitExec ==
    /\ \E opcode \in 0 .. 255, operand \in { << \H01, \H00 >>, << \HFF, \H30 >> },
          a \in { \H00, \H81 }, x \in { \H00, \HFF }, st \in { \H24, \HE7 },
          sp \in { \HFD, \H00 }, pcv \in { \H8000, \HFFFF } :
          cpu = CPUWith(a, x, \H01, st, sp, pcv,
                        Place(Background, pcv, << opcode >> \o operand))
    /\ stdout = << >>
    /\ running = TRUE
    /\ panic = FALSE
    /\ hist = << >>

SpecExec == InitExec /\ [][Interpret]_vars

\* C9: an iteration that fetches an opcode with no case in the switch prints
\* the opcode and leaves accumulator, index_x, index_y, status, stack_pointer
\* and memory as they were; program_counter is the address just past the opcode.
C9_UndefinedOpcodeOnlyAdvances ==
    \A i \in 1 .. Len(hist) :
        (hist[i].op = "Interpret" /\ Undefined(hist[i].arg[1]))
        => LET past == (Before(i).program_counter + 1) % 65536
           IN  /\ After(i) = [Before(i) EXCEPT !.program_counter = past]
               /\ OutAfter(i) = OutBefore(i) \o << << hist[i].arg[1], past >> >>

\* opcode 0xFF fetched at 0xFFFF with non-trivial registers: reported, and the
\* program counter wrapped to 0x0000
C9_UndefinedWitness ==
    /\ Len(hist) = 1
    /\ hist[1].op = "Interpret"
    /\ hist[1].arg = << \HFF >>
    /\ Before(1).program_counter = \HFFFF
    /\ Before(1).accumulator = \H81
    /\ Before(1).status = \HE7
    /\ cpu.program_counter = 0
    /\ cpu.accumulator = \H81
    /\ stdout = << << \HFF, 0 >> >>

\* C10: an undefined opcode is a stopping condition: no further opcode is
\* fetched and executed after the iteration that reported one.
C10_UndefinedOpcodeStopsLoop ==
    \A i \in 1 .. Len(hist) :
        (hist[i].op = "Interpret" /\ Undefined(hist[i].arg[1])) => i = Len(hist)

----------------------------------------------------------------------------
(* C11, C12: reset and load, called on any CPU                             *)

\* memory left by earlier code: a reset vector that is not 0x8000, and bytes in
\* the region load copies to
StaleVector ==
    Place(Place(<< >>, \HFFFC, << \H34, \H12 >>), \H8000, << \HE5, \HE6, \HE7 >>)

\* buffers handed to load: short ones, and ones that reach the reset vector
LoadBuffers ==
    { << >>, LDA_BEQ_Program, ROM(\H7FFD), ROM(\H8000), OversizedROM }

\* direct calls of load and reset that are followed
MaxLoadCalls == 2

InitLoad ==
    /\ \E r \in { << \H00, \H24, \HFD >>, << \H81, \HE7, \H00 >> },
          memory \in { << >>, StaleVector } :
          cpu = CPUWith(r[1], \HFF, \H01, r[2], r[3], \H5678, memory)
    /\ stdout = << >>
    /\ running = FALSE
    /\ panic = FALSE
    /\ hist = << >>

Call_load ==
    /\ ~panic
    /\ Len(hist) < MaxLoadCalls
    /\ \E instructions \in LoadBuffers :
          /\ cpu' = load(cpu, instructions)
          /\ panic' = loadPanics(instructions)
          /\ hist' = Append(hist, Call("load", instructions, 0))
    /\ UNCHANGED << stdout, running >>

Call_reset ==
    /\ ~panic
    /\ Len(hist) < MaxLoadCalls
    /\ cpu' = reset(cpu)
    /\ hist' = Append(hist, Call("reset", << >>, 0))
    /\ UNCHANGED << stdout, running, panic >>

NextLoad == Call_load \/ Call_reset

SpecLoad == InitLoad /\ [][NextLoad]_vars

\* C11: from any CPU state, reset leaves accumulator = index_x = index_y = 0,
\* status = 0b00100100, stack_pointer = 0xFD and program_counter = the
\* little-endian 16-bit value stored at 0xFFFC/0xFFFD, and leaves memory
\* unchanged.
C11_ResetState ==
    \A i \in 1 .. Len(hist) :
        hist[i].op = "reset"
        => /\ After(i).accumulator = 0
           /\ After(i).index_x = 0
           /\ After(i).index_y = 0
           /\ After(i).status = 36
           /\ After(i).stack_pointer = \HFD
           /\ After(i).program_counter =
                  MemAt(Before(i).memory, \HFFFC) + 256 * MemAt(Before(i).memory, \HFFFD)
           /\ After(i).memory = Before(i).memory

\* reset from non-trivial registers with the vector 0x1234 in memory
C11_ResetWitness ==
    /\ Len(hist) = 1
    /\ hist[1].op = "reset"
    /\ Before(1).accumulator = \H81
    /\ Before(1).status = \HE7
    /\ Before(1).stack_pointer = \H00
    /\ Before(1).memory = StaleVector
    /\ cpu.program_counter = \H1234
    /\ cpu.status = 36

\* the buffer byte of index i (from 0) is where load is to put it
Copied(i, instructions, c) == MemAt(c.memory, \H8000 + i) = instructions[i + 1]

\* the reset vector holds 0x8000 little-endian
VectorSet(c) == MemAt(c.memory, \HFFFC) = \H00 /\ MemAt(c.memory, \HFFFD) = \H80

\* C12 as stated (of the call made last): after load(bytes), memory[0x8000+i] = bytes[i] for every index
\* i of the buffer and the reset vector holds 0x8000, so that reset sets
\* program_counter to 0x8000.
C12_LoadCopiesWholeBuffer ==
    \A k \in { Len(hist) } \ { 0 } :
        (hist[k].op = "load" /\ ~loadPanics(hist[k].arg))
        => /\ \A i \in 0 .. (Len(hist[k].arg) - 1) : Copied(i, hist[k].arg, After(k))
           /\ VectorSet(After(k))
           /\ reset(After(k)).program_counter = \H8000

\* C12 as amended (of the call made last): for a buffer of at most 0x8000 bytes, after load(bytes)
\* memory[0x8000+i] = bytes[i] for every index i other than 0x7FFC and 0x7FFD,
\* where the reset vector is written over the buffer, and the reset vector holds
\* 0x8000, so that reset sets program_counter to 0x8000.
C12_LoadCopiesBufferBelowVector ==
    \A k \in { Len(hist) } \ { 0 } :
        (hist[k].op = "load" /\ Len(hist[k].arg) <= \H8000)
        => /\ \A i \in (0 .. (Len(hist[k].arg) - 1)) \ { \H7FFC, \H7FFD } :
                  Copied(i, hist[k].arg, After(k))
           /\ VectorSet(After(k))
           /\ reset(After(k)).program_counter = \H8000

\* a buffer that reaches past the reset vector, loaded over stale memory, and
\* reset after it
C12_LoadWitness ==
    /\ Len(hist) = 2
    /\ hist[1].op = "load"
    /\ hist[1].arg = ROM(\H8000)
    /\ Before(1).memory = StaleVector
    /\ hist[2].op = "reset"
    /\ MemAt(cpu.memory, \HFFFF) = \HA5
    /\ MemAt(cpu.memory, \H8001) = 0
    /\ cpu.program_counter = \H8000

----------------------------------------------------------------------------
(* C13: no index out of range                                              *)

\* C13: whatever buffer load is handed and whatever Interpret then executes,
\* every index into memory is within 0..0xFFFF: the process never ends on an
\* index out of range.
C13_NoIndexOutOfRange == ~panic

----------------------------------------------------------------------------
(* C14: the stack functions stay in the stack page                         *)

\* the cells indexed by call i of the log
CellsOf(i) ==
    CASE hist[i].op = "push"    -> push_cells(Before(i))
      [] hist[i].op = "pop"     -> pop_cells(Before(i))
      [] hist[i].op = "push_16" -> push_16_cells(Before(i))
      [] hist[i].op = "pop_16"  -> pop_16_cells(Before(i))
      [] OTHER                  -> { }

\* C14: every cell read or written by push, pop, push_16 and pop_16 is at
\* STACK_START + stack_pointer, inside the page 0x0100..0x01FF.
C14_StackCellsInStackPage ==
    \A i \in 1 .. Len(hist) : CellsOf(i) \subseteq (\H0100 .. \H01FF)

----------------------------------------------------------------------------
(* C15, C16: the relative branches                                         *)

\* BCC, BCS, BEQ, BNE, BMI, BPL, BVC, BVS
BranchOpcodes == { \H90, \HB0, \HF0, \HD0, \H30, \H10, \H50, \H70 }

\* forward and backward offsets, none of them zero
OffsetSamples == { \H02, \H7F, \H80, \HFE }

\* status bytes with every combination of Carry, Zero, Overflow and Negative
BranchStatusSamples ==
    { \H24 + c + 2 * z + 64 * v + 128 * n : c \in 0 .. 1, z \in 0 .. 1, v \in 0 .. 1, n \in 0 .. 1 }

InitBranch ==
    /\ \E opcode \in BranchOpcodes, offset \in OffsetSamples,
          st \in BranchStatusSamples, pcv \in { \H8000, \HFFFE } :
          cpu = CPUWith(\H00, \H00, \H00, st, \HFD, pcv,
                        Place(<< >>, pcv, << opcode, offset >>))
    /\ stdout = << >>
    /\ running = TRUE
    /\ panic = FALSE
    /\ hist = << >>

SpecBranch == InitBranch /\ [][Interpret]_vars

\* iteration i executed one of the eight branch instructions
RanBranch(i) == hist[i].op = "Interpret" /\ hist[i].arg[1] \in BranchOpcodes

\* the address of the instruction after the two-byte branch of iteration i
NextInstruction(i) == (Before(i).program_counter + 2) % 65536

\* the operand byte read as a signed 8-bit offset
Signed(value) == IF value >= 128 THEN value - 256 ELSE value

\* the branch of iteration i left the fall-through path
Taken(i) == After(i).program_counter # NextInstruction(i)

BranchCondition(ins) ==
    CASE ins = "bcc" -> << C, 0 >>
      [] ins = "bcs" -> << C, 1 >>
      [] ins = "beq" -> << Z, 1 >>
      [] ins = "bne" -> << Z, 0 >>
      [] ins = "bmi" -> << N, 1 >>
      [] ins = "bpl" -> << N, 0 >>
      [] ins = "bvc" -> << V, 0 >>
      [] ins = "bvs" -> << V, 1 >>

\* C16: each branch is taken exactly when its own flag condition holds (BCC C=0,
\* BCS C=1, BEQ Z=1, BNE Z=0, BMI N=1, BPL N=0, BVC V=0, BVS V=1); a branch not
\* taken changes nothing but program_counter, which moves past the operand.
C16_BranchTakenOnOwnFlag ==
    \A i \in 1 .. Len(hist) :
        RanBranch(i)
        => LET cond == BranchCondition(DecodeTable[hist[i].arg[1]][1])
               flag == (Before(i).status \div Pow2(cond[1])) % 2
           IN  /\ Taken(i) <=> (flag = cond[2])
               /\ ~Taken(i)
                  => After(i) = [Before(i) EXCEPT !.program_counter = NextInstruction(i)]

----------------------------------------------------------------------------
(* C17: CMP, CPX, CPY                                                      *)

\* CMP, CPX and CPY with an immediate operand
CompareOpcodes == { \HC9, \HE0, \HC0 }

\* register and operand values: equal, below and above each other
CompareSamples == { \H00, \H01, \H80, \HFF }

InitCompare ==
    /\ \E opcode \in CompareOpcodes, r \in CompareSamples, m \in CompareSamples,
          st \in { \H24, \H25, \HE7 } :
          cpu = CPUWith(r, r, r, st, \HFD, \H8000,
                        Place(<< >>, \H8000, << opcode, m >>))
    /\ stdout = << >>
    /\ running = TRUE
    /\ panic = FALSE
    /\ hist = << >>

SpecCompare == InitCompare /\ [][Interpret]_vars

\* the register iteration i compares: accumulator, index_x or index_y
ComparedRegister(i) ==
    CASE Ran(i, "cmp") -> Before(i).accumulator
      [] Ran(i, "cpx") -> Before(i).index_x
      [] Ran(i, "cpy") -> Before(i).index_y

\* C17: CMP, CPX and CPY set Carry exactly when the register is >= the operand
\* (and clear it when the register is smaller), set Zero exactly when they are
\* equal, and leave the register unchanged.
C17_CompareCarryZero ==
    \A i \in 1 .. Len(hist) :
        (Ran(i, "cmp") \/ Ran(i, "cpx") \/ Ran(i, "cpy"))
        => LET r == ComparedRegister(i)
               m == OperandOf(i)
           IN  /\ (After(i).status % 2 = 1) <=> (r >= m)
               /\ ((After(i).status \div 2) % 2 = 1) <=> (r = m)
               /\ After(i).accumulator = Before(i).accumulator
               /\ After(i).index_x = Before(i).index_x
               /\ After(i).index_y = Before(i).index_y

----------------------------------------------------------------------------
(* C18: TSX and TXS                                                        *)

\* C18: TSX copies stack_pointer into index_x and TXS copies index_x into
\* stack_pointer; status is neither the source of TSX nor the destination of
\* TXS.
C18_StackPointerTransfers ==
    \A i \in 1 .. Len(hist) :
        /\ Ran(i, "tsx")
           => /\ After(i).index_x = Before(i).stack_pointer
              /\ After(i).stack_pointer = Before(i).stack_pointer
        /\ Ran(i, "txs")
           => /\ After(i).stack_pointer = Before(i).index_x
              /\ After(i).index_x = Before(i).index_x

----------------------------------------------------------------------------
(* C20: JMP                                                                *)

\* the address the addressing mode of iteration i resolves to, computed once
\* the opcode has been fetched
ResolvedAddress(i) ==
    LET fetched == [Before(i) EXCEPT !.program_counter = Word(@ + 1)]
    IN  address_operand(fetched, DecodeTable[hist[i].arg[1]][2])

\* C20: after an iteration that executes JMP (0x4C or 0x6C), program_counter
\* is exactly the address its addressing mode resolved: nothing is added for the
\* operand bytes.
C20_JMPLandsOnTarget ==
    \A i \in 1 .. Len(hist) :
        Ran(i, "jmp") => After(i).program_counter = ResolvedAddress(i)

----------------------------------------------------------------------------
(* C19: BRK, then RTI at the handler                                       *)

\* where the interrupt vector of the images points, and where BRK is placed
HandlerAddress == \H9000

\* BRK at 0x8000, the interrupt vector pointing at the handler, RTI at the handler
BRKImage(memory) ==
    Place(Place(Place(memory, \H8000, << \H00 >>), IRQ, << \H00, \H90 >>),
          HandlerAddress, << \H40 >>)

InitBRK ==
    /\ \E st \in { \H24, \H25, \HA6, \HE7 }, sp \in StackPointerSamples,
          memory \in { << >>, StaleStack } :
          cpu = CPUWith(\H81, \H00, \H01, st, sp, \H8000, BRKImage(memory))
    /\ stdout = << >>
    /\ running = TRUE
    /\ panic = FALSE
    /\ hist = << >>

SpecBRK == InitBRK /\ [][Interpret]_vars

\* C19: BRK pushes program_counter and then status, sets the Break flag and
\* loads program_counter from 0xFFFE; an RTI executed next restores the status
\* and the program_counter that BRK pushed and returns stack_pointer to its
\* value before the BRK.
C19_BRKThenRTIRestores ==
    \A i \in 1 .. Len(hist) :
        Ran(i, "brk")
        => LET pushed_pc     == (Before(i).program_counter + 1) % 65536
               pushed_status == Before(i).status
           IN  /\ After(i).program_counter = mem_read_16(Before(i), IRQ)
               /\ (After(i).status \div Pow2(B)) % 2 = 1
               /\ (i < Len(hist) /\ Ran(i + 1, "rti"))
                  => /\ After(i + 1).status = pushed_status
                     /\ After(i + 1).program_counter = pushed_pc
                     /\ After(i + 1).stack_pointer = Before(i).stack_pointer

----------------------------------------------------------------------------
(* C21: program_counter after an instruction that does not transfer control *)

\* the operand bytes that follow the opcode in each addressing mode
OperandWidth(mode) ==
    CASE mode \in { "modeAbsolute", "modeAbsoluteX", "modeAbsoluteY", "modeIndirect" } -> 2
      [] mode \in { "modeImmediate", "modeZeroPage", "modeZeroPageX", "modeZeroPageY",
                    "modeIndirectX", "modeIndirectY", "modeRelative" } -> 1
      [] OTHER -> 0

\* the instructions that set program_counter themselves
ControlTransfers ==
    { "bcc", "bcs", "beq", "bne", "bmi", "bpl", "bvc", "bvs",
      "jmp", "jsr", "rts", "rti", "brk" }

\* iteration i executed an opcode of the switch that leaves program_counter
\* to the dispatcher
RanSequential(i) ==
    /\ hist[i].op = "Interpret"
    /\ ~Undefined(hist[i].arg[1])
    /\ DecodeTable[hist[i].arg[1]][1] \notin ControlTransfers

\* C21: for every opcode of the switch that is not a branch, jump, subroutine
\* call, return or BRK, program_counter after the instruction is the opcode
\* address + 1 + the operand width of its addressing mode, so every opcode of
\* one addressing mode advances by the same amount.
C21_AdvanceMatchesOperandWidth ==
    \A i \in 1 .. Len(hist) :
        RanSequential(i)
        => After(i).program_counter
             = (Before(i).program_counter + 1
                  + OperandWidth(DecodeTable[hist[i].arg[1]][2])) % 65536

----------------------------------------------------------------------------
(* C22, C23: the indexed zero-page and indirect modes of the resolver      *)

\* call i of the log resolved an address in the given mode
Resolved(i, mode) == hist[i].op = "address_operand" /\ hist[i].arg[1] = mode

\* the operand byte at program_counter when call i was made
OperandByte(i) == MemAt(Before(i).memory, Before(i).program_counter)

\* the little-endian 16-bit value held in page zero at pointer and its successor
ZeroPageWord(memory, pointer) ==
    MemAt(memory, pointer % 256) + 256 * MemAt(memory, (pointer + 1) % 256)

\* C22: in IndirectY mode the effective address is the 16-bit value stored in
\* page zero at the operand byte's address and its successor, plus index_y,
\* added as a 16-bit sum after the pointer is dereferenced.
C22_IndirectYAddsAfterDereference ==
    \A i \in 1 .. Len(hist) :
        Resolved(i, "modeIndirectY")
        => hist[i].ret
             = (ZeroPageWord(Before(i).memory, OperandByte(i)) + Before(i).index_y) % 65536

\* C23: in ZeroPageX and ZeroPageY modes the effective address is (operand byte
\* + index register) mod 256, inside 0x0000..0x00FF; in IndirectX mode the
\* address is read from page zero at (operand + index_x) mod 256 and at its
\* successor mod 256.
C23_ZeroPageIndexingWraps ==
    \A i \in 1 .. Len(hist) :
        /\ Resolved(i, "modeZeroPageX")
           => /\ hist[i].ret = (OperandByte(i) + Before(i).index_x) % 256
              /\ hist[i].ret \in 0 .. 255
        /\ Resolved(i, "modeZeroPageY")
           => /\ hist[i].ret = (OperandByte(i) + Before(i).index_y) % 256
              /\ hist[i].ret \in 0 .. 255
        /\ Resolved(i, "modeIndirectX")
           => hist[i].ret
                = ZeroPageWord(Before(i).memory, OperandByte(i) + Before(i).index_x)

\* operand 0xFF resolved in ZeroPageX with index_x = 1 (the sum wraps to 0x00)
\* and then in IndirectX (pointer 0x00, read from 0x0000 and 0x0001)
C23_WrapWitness ==
    /\ Len(hist) = 2
    /\ Resolved(1, "modeZeroPageX")
    /\ Resolved(2, "modeIndirectX")
    /\ OperandByte(1) = \HFF
    /\ cpu.index_x = 1
    /\ cpu.program_counter = \HFFFF
    /\ hist[1].ret = 0
    /\ hist[2].ret = ZeroPageWord(cpu.memory, 0)
    /\ hist[2].ret # 0

----------------------------------------------------------------------------
(* C24, C25: ASL, LSR, ROL, ROR                                            *)

\* the opcodes of ASL, LSR, ROL and ROR, in Accumulator and in memory modes
ShiftOpcodes == { o \in 0 .. 255 : DecodeTable[o][1] \in { "asl", "lsr", "rol", "ror" } }

\* operand values with bit 7 and bit 0 set and clear
ShiftSamples == { \H00, \H01, \H80, \HC1 }

\* the instruction at 0x8000 with operand 0x0010 (zero page or absolute), the
\* value to shift at 0x0010 and its complement at 0x0011
InitShift ==
    /\ \E opcode \in ShiftOpcodes, a \in ShiftSamples, m \in ShiftSamples,
          x \in { \H00, \H01 }, st \in { \H24, \H25, \HA6 } :
          cpu = CPUWith(a, x, \H00, st, \HFD, \H8000,
                        Place(Place(<< >>, \H0010, << m, 255 - m >>),
                              \H8000, << opcode, \H10, \H00 >>))
    /\ stdout = << >>
    /\ running = TRUE
    /\ panic = FALSE
    /\ hist = << >>

SpecShift == InitShift /\ [][Interpret]_vars

\* iteration i executed ASL, LSR, ROL or ROR
RanShift(i) == hist[i].op = "Interpret" /\ hist[i].arg[1] \in ShiftOpcodes

\* the value iteration i shifted, and the value it left in the same place
ShiftedOperand(i) ==
    IF DecodeTable[hist[i].arg[1]][2] = "modeAccumulator"
    THEN Before(i).accumulator
    ELSE MemAt(Before(i).memory, ResolvedAddress(i))

ShiftResult(i) ==
    IF DecodeTable[hist[i].arg[1]][2] = "modeAccumulator"
    THEN After(i).accumulator
    ELSE MemAt(After(i).memory, ResolvedAddress(i))

\* C24: after ASL, LSR, ROL and ROR, in Accumulator mode and in every memory
\* mode, Carry is the bit shifted out of the operand (bit 7 for ASL and ROL, bit
\* 0 for LSR and ROR), and for ROL and ROR the vacated bit of the result is the
\* Carry of before the instruction.
C24_ShiftCarry ==
    \A i \in 1 .. Len(hist) :
        RanShift(i)
        => LET carry_in  == Before(i).status % 2
               carry_out == After(i).status % 2
           IN  /\ (Ran(i, "asl") \/ Ran(i, "rol")) => carry_out = ShiftedOperand(i) \div 128
               /\ (Ran(i, "lsr") \/ Ran(i, "ror")) => carry_out = ShiftedOperand(i) % 2
               /\ Ran(i, "rol") => ShiftResult(i) % 2 = carry_in
               /\ Ran(i, "ror") => ShiftResult(i) \div 128 = carry_in

\* C25: after ASL, in Accumulator and in memory modes, Zero is set exactly when
\* the shifted result is 0 and Negative exactly when bit 7 of the result is 1,
\* whatever the status register held.
C25_ASLZeroNegativeFromResult ==
    \A i \in 1 .. Len(hist) :
        Ran(i, "asl")
        => /\ ((After(i).status \div 2) % 2 = 1) <=> (ShiftResult(i) = 0)
           /\ (After(i).status \div 128 = 1) <=> (ShiftResult(i) \div 128 = 1)

----------------------------------------------------------------------------
(* C26: BIT                                                                *)

\* C26: after BIT with accumulator a and memory operand m, Zero is set exactly
\* when a AND m is 0, Overflow is bit 6 of m and Negative is bit 7 of m, and
\* the accumulator and memory are unchanged.
C26_BITFlagsFromOperand ==
    \A i \in 1 .. Len(hist) :
        Ran(i, "bit")
        => LET a == Before(i).accumulator
               m == OperandOf(i)
           IN  /\ ((After(i).status \div 2) % 2 = 1) <=> (BitAnd(a, m) = 0)
               /\ (After(i).status \div 64) % 2 = (m \div 64) % 2
               /\ After(i).status \div 128 = m \div 128
               /\ After(i).accumulator = a
               /\ After(i).memory = Before(i).memory

----------------------------------------------------------------------------
(* C27: the flag instructions                                              *)

\* CLC, SEC, CLI, SEI, CLV, CLD, SED
FlagOpcodes == { \H18, \H38, \H58, \H78, \HB8, \HD8, \HF8 }

\* the status bit each flag instruction names, and the value it gives it
FlagEffect(opcode) ==
    CASE opcode = \H18 -> << 0, 0 >>
      [] opcode = \H38 -> << 0, 1 >>
      [] opcode = \H58 -> << 2, 0 >>
      [] opcode = \H78 -> << 2, 1 >>
      [] opcode = \HB8 -> << 6, 0 >>
      [] opcode = \HD8 -> << 3, 0 >>
      [] opcode = \HF8 -> << 3, 1 >>

\* status bytes with each of Carry, Interrupt, Decimal and Overflow set and clear
FlagStatusSamples == { \H00, \H24, \H6D, \HE7, \HFF }

InitFlagOps ==
    /\ \E opcode \in FlagOpcodes, st \in FlagStatusSamples,
          r \in { << \H00, \H00, \HFD >>, << \H81, \HFF, \H00 >> },
          pcv \in { \H8000, \HFFFF } :
          cpu = CPUWith(r[1], r[2], \H01, st, r[3], pcv,
                        Place(Background, pcv, << opcode >>))
    /\ stdout = << >>
    /\ running = TRUE
    /\ panic = FALSE
    /\ hist = << >>

SpecFlagOps == InitFlagOps /\ [][Interpret]_vars

\* status with one bit given a value and the other seven kept
WithBit(st, pos, val) == st - ((st \div Pow2(pos)) % 2) * Pow2(pos) + val * Pow2(pos)

\* C27: each of CLC, SEC, CLD, SED, CLI, SEI, CLV changes only its one named
\* status bit (to 0 for the clear forms, to 1 for the set forms); the other
\* seven status bits, accumulator, index registers, stack_pointer and memory
\* are unchanged and program_counter moves past the opcode byte.
C27_FlagOpsChangeOneBit ==
    \A i \in 1 .. Len(hist) :
        (hist[i].op = "Interpret" /\ hist[i].arg[1] \in FlagOpcodes)
        => LET effect == FlagEffect(hist[i].arg[1])
           IN  After(i) =
                 [Before(i) EXCEPT
                    !.status = WithBit(Before(i).status, effect[1], effect[2]),
                    !.program_counter = (Before(i).program_counter + 1) % 65536]

\* CLD fetched at 0xFFFF with every status bit set and non-trivial registers:
\* only Decimal is cleared, and program_counter wraps to 0x0000
C27_ClearDecimalWitness ==
    /\ Len(hist) = 1
    /\ hist[1].arg = << \HD8 >>
    /\ Before(1).status = \HFF
    /\ Before(1).program_counter = \HFFFF
    /\ Before(1).accumulator = \H81
    /\ cpu.status = \HF7
    /\ cpu.program_counter = 0
    /\ cpu.accumulator = \H81

----------------------------------------------------------------------------
(* C28: the stores                                                         *)

\* the register iteration i stores: accumulator, index_x or index_y
StoredRegister(i) ==
    CASE Ran(i, "sta") -> Before(i).accumulator
      [] Ran(i, "stx") -> Before(i).index_x
      [] Ran(i, "sty") -> Before(i).index_y

\* the effective address of the operand of iteration i: as the resolver gives
\* it, but in IndirectY mode the word the zero-page pointer holds, plus index_y
EffectiveAddress(i) ==
    IF DecodeTable[hist[i].arg[1]][2] = "modeIndirectY"
    THEN LET pointer == MemAt(Before(i).memory, (Before(i).program_counter + 1) % 65536)
         IN  (ZeroPageWord(Before(i).memory, pointer) + Before(i).index_y) % 65536
    ELSE ResolvedAddress(i)

\* C28: STA, STX and STY write the source register to the effective address and
\* change nothing else: status, accumulator, index registers, stack_pointer and
\* every other memory cell are unchanged.
C28_StoresWriteOneCell ==
    \A i \in 1 .. Len(hist) :
        (Ran(i, "sta") \/ Ran(i, "stx") \/ Ran(i, "sty"))
        => /\ After(i).status = Before(i).status
           /\ After(i).accumulator = Before(i).accumulator
           /\ After(i).index_x = Before(i).index_x
           /\ After(i).index_y = Before(i).index_y
           /\ After(i).stack_pointer = Before(i).stack_pointer
           /\ \A address \in (DOMAIN Before(i).memory) \cup (DOMAIN After(i).memory)
                               \cup { EffectiveAddress(i) } :
                  MemAt(After(i).memory, address)
                    = IF address = EffectiveAddress(i) THEN StoredRegister(i)
                                                       ELSE MemAt(Before(i).memory, address)

----------------------------------------------------------------------------
(* C29: SBC                                                                *)

\* the opcodes of SBC: immediate, zero page, zero page X, absolute, absolute X,
\* absolute Y, indirect X, indirect Y
SBCOpcodes == { \HE9, \HE5, \HF5, \HED, \HFD, \HF9, \HE1, \HF1 }

\* C29: the SBC opcodes are dispatched to a subtract-with-borrow on the
\* accumulator and are not treated as undefined opcodes: the iteration reports
\* nothing, and SBC immediate leaves accumulator - operand - (1 - Carry) mod 256
\* in the accumulator.
C29_SBCDispatched ==
    \A i \in 1 .. Len(hist) :
        (hist[i].op = "Interpret" /\ hist[i].arg[1] \in SBCOpcodes)
        => /\ ~Undefined(hist[i].arg[1])
           /\ OutAfter(i) = OutBefore(i)
           /\ hist[i].arg[1] = \HE9
              => LET a == Before(i).accumulator
                     m == MemAt(Before(i).memory, (Before(i).program_counter + 1) % 65536)
                     c == Before(i).status % 2
                 IN  After(i).accumulator = (a - m - (1 - c) + 512) % 256

====
